---- MODULE Spec2Model ----
(***************************************************************************)
(* Exercise tracker (src/index.js): five express handlers over one shared  *)
(* PostgreSQL connection.  Every `await client.query(...)` is one atomic   *)
(* statement at the store and one step of the handler that issued it;      *)
(* handlers of different requests interleave between their statements.    *)
(***************************************************************************)
EXTENDS Integers, Sequences, FiniteSets, TLC

VARIABLES
  tables,      \* names of the relations that exist in the store
  users,       \* rows of users: [id, username]
  exercises,   \* rows of exercises: [id, user_id, description, duration, date]
  exFk,        \* exercises still carries its REFERENCES users(_id) constraint
  tz,          \* the server's time zone, as an offset from UTC in half days
  reqs,        \* per handler slot: the request whose handler is suspended on a statement
  last,        \* the request that the step just taken answered, with its response
  answered,    \* history: <<username, id>> pairs sent in create-user successes since the last DROP
  sinceReset   \* history: a reset has answered success and no create-user or reset has
               \* arrived since (on), and the ids of the users that reset dropped

vars == <<tables, users, exercises, exFk, tz, reqs, last, answered, sinceReset>>

----------------------------------------------------------------------------
(* Bounds of the model *)

\* handlers that can be suspended on a statement at once
MaxInFlight == 2
\* distinct ids generateObjectId can return for a user
MaxUsers == 2
\* distinct ids generateObjectId can return for an exercise
MaxExercises == 2
\* calendar days a request can name
MaxDay == 2

UserIds == 1..MaxUsers
ExerciseIds == 1..MaxExercises
Days == 1..MaxDay

----------------------------------------------------------------------------
(* JavaScript values that reach the handlers from a request *)

Undef == [t |-> "undefined", n |-> 0, s |-> <<>>]
Num(n) == [t |-> "number", n |-> n, s |-> <<>>]
Str(s) == [t |-> "string", n |-> 0, s |-> s]
\* the text YYYY-MM-DD of calendar day d
DateStr(d) == [t |-> "datestring", n |-> d, s |-> <<"d">>]

\* the conditions `!username`, `!description || !duration`, `date ?`, `if (from)`
Truthy(x) ==
  CASE x.t = "undefined" -> FALSE
    [] x.t = "number" -> x.n # 0
    [] OTHER -> x.s # <<>>

NaN == [ok |-> FALSE, v |-> 0]
Int32(n) == [ok |-> TRUE, v |-> n]

DigitChars == <<"0", "1", "2", "3", "4", "5", "6", "7", "8", "9">>
IsDigit(c) == \E i \in 1..Len(DigitChars) : DigitChars[i] = c
DigitVal(c) == (CHOOSE i \in 1..Len(DigitChars) : DigitChars[i] = c) - 1

\* the value of the longest run of digits that starts s, continuing from acc
RECURSIVE ParseDigits(_, _)
ParseDigits(s, acc) ==
  IF s = <<>> \/ ~IsDigit(Head(s)) THEN acc
  ELSE ParseDigits(Tail(s), 10 * acc + DigitVal(Head(s)))

\* parseInt of a string: optional sign, then leading digits; NaN without a digit
ParseIntStr(s) ==
  LET neg == s # <<>> /\ Head(s) = "-"
      rest == IF s # <<>> /\ Head(s) \in {"-", "+"} THEN Tail(s) ELSE s
  IN IF rest = <<>> \/ ~IsDigit(Head(rest)) THEN NaN
     ELSE Int32(IF neg THEN 0 - ParseDigits(rest, 0) ELSE ParseDigits(rest, 0))

\* parseInt(x): a number is converted to its decimal text first; an integer reads back as itself
parseInt(x) ==
  CASE x.t = "number" -> Int32(x.n)
    [] x.t = "string" -> ParseIntStr(x.s)
    [] OTHER -> NaN

----------------------------------------------------------------------------
(* Dates.  An instant is a count of half days since the epoch, in UTC.     *)

InvalidDate == [valid |-> FALSE, t |-> 0]
Instant(t) == [valid |-> TRUE, t |-> t]

\* new Date(text): a date-only text is midnight UTC of that day; other text is Invalid Date
NewDate(x) == IF x.t = "datestring" THEN Instant(2 * x.n) ELSE InvalidDate

\* the calendar day of an instant on the server's clock
LocalDay(t) == (t + tz) \div 2

\* node-postgres writes a Date parameter as local time; a DATE takes its calendar day
PgDateParam(d) == LocalDay(d.t)

\* node-postgres reads a DATE column as midnight local time of that day
PgDateRead(day) == Instant(2 * day - tz)

\* Date.prototype.toDateString: the local calendar day of the instant
toDateString(d) == LocalDay(d.t)

----------------------------------------------------------------------------
(* The store: PostgreSQL under the schema of createUsersTable and          *)
(* createExercisesTable.  A statement yields an error or rows.             *)

Fail(e) == [err |-> e, rows |-> {}]
Rows(rs) == [err |-> "none", rows |-> rs]

\* users._id is the PRIMARY KEY
UserIdTaken(id) == \E u \in users : u.id = id

\* mutation: username is declared without UNIQUE
UsernameNotUnique(username) == FALSE

\* users.username is UNIQUE
UsernameTaken(username) == \E u \in users : u.username = username

\* exercises._id is the PRIMARY KEY
ExerciseIdTaken(id) == \E e \in exercises : e.id = id

\* exercises.user_id REFERENCES users(_id), while the constraint exists
ReferencesUser(user_id) == exFk => \E u \in users : u.id = user_id

\* 'SELECT username, _id FROM users WHERE username = $1'
SelectUserByUsername(username) ==
  IF "users" \notin tables THEN Fail("schema")
  ELSE Rows({u \in users : u.username = username})

\* 'INSERT INTO users (_id, username) VALUES ($1, $2) RETURNING username, _id'
InsertUser(id, username) ==
  IF "users" \notin tables THEN Fail("schema")
  ELSE IF UserIdTaken(id) \/ UsernameTaken(username) THEN Fail("constraint")
  ELSE Rows({[id |-> id, username |-> username]})

\* a set of rows as the sequences that list it in the order of key, a function of the row (ties in any order)
OrderBy(rs, key) ==
  {q \in [1..Cardinality(rs) -> rs] :
     /\ \A i, j \in 1..Cardinality(rs) : i # j => q[i] # q[j]
     /\ \A i, j \in 1..Cardinality(rs) : i < j => key[q[i]] <= key[q[j]]}

\* usernames are one character here, compared by that character's place in the alphabet
Alphabet == <<"a", "b", "c", "d">>
Collate(s) == IF s = <<>> THEN 0 ELSE CHOOSE i \in 1..Len(Alphabet) : Alphabet[i] = s[1]
ByUsername(u) == Collate(u.username)

\* 'SELECT username, _id FROM users ORDER BY username'
SelectUsers ==
  IF "users" \notin tables THEN Fail("schema") ELSE Rows(OrderBy(users, [u \in users |-> ByUsername(u)]))

\* 'SELECT * FROM users WHERE _id = $1'
SelectUserById(id) ==
  IF "users" \notin tables THEN Fail("schema") ELSE Rows({u \in users : u.id = id})

----------------------------------------------------------------------------
(* Requests *)

NoBody ==
  [error |-> "", message |-> "", id |-> 0, username |-> <<>>, list |-> <<>>,
   count |-> 0, date |-> 0, duration |-> 0, description |-> <<>>]

ErrorBody(msg) == [NoBody EXCEPT !.error = msg]

NotSince == [on |-> FALSE, ids |-> {}]
Since(ids) == [on |-> TRUE, ids |-> ids]

\* the requests that leave sinceReset as it is
UnderReset(kind) == kind \notin {"createUser", "reset"}

Idle ==
  [kind |-> "none", pc |-> "idle", username |-> Undef, userId |-> 0,
   description |-> Undef, duration |-> Undef, date |-> Undef,
   exerciseDate |-> InvalidDate, from |-> Undef, to |-> Undef, limit |-> Undef,
   userRows |-> {}, status |-> 0, body |-> NoBody,
   err |-> "none",      \* the failure of the statement of this request that failed, if one did
   wrote |-> FALSE,     \* history: a statement of this request changed the store
   seen |-> {},         \* history (reset): the ids of the users its DROP removed
   prior |-> {}]        \* history (create-user): ids already answered for its username, no DROP since

Slots == DOMAIN reqs
InFlight(s) == reqs[s].pc # "idle"
Quiet == \A s \in Slots : ~InFlight(s)

\* a request is taken by the lowest slot that holds no suspended handler
Free(r) == ~InFlight(r) /\ \A s \in Slots : s < r => InFlight(s)

StoredUserIds == {u.id : u \in users}

Arrive(kind) == [Idle EXCEPT !.kind = kind]

\* res.status(status).json(body)
Respond(rec, status, body) == [rec EXCEPT !.pc = "done", !.status = status, !.body = body]

\* the handlers rs, where the one that has answered leaves its slot and becomes `last`
Settle(rs) ==
  /\ reqs' = [s \in Slots |-> IF rs[s].pc = "done" THEN Idle ELSE rs[s]]
  /\ last' = IF \E s \in Slots : rs[s].pc = "done"
             THEN rs[CHOOSE s \in Slots : rs[s].pc = "done"]
             ELSE Idle

Arrival(r, rec) ==
  /\ Free(r)
  /\ reqs' = [reqs EXCEPT ![r] = IF rec.pc = "done" THEN Idle ELSE rec]
  /\ last' = IF rec.pc = "done" THEN rec ELSE Idle
  /\ sinceReset' = IF UnderReset(rec.kind) THEN sinceReset ELSE NotSince
  /\ UNCHANGED <<tables, users, exercises, exFk, tz, answered>>

\* the statement fails for a reason outside the program (connection lost, timeout, ...)
Faulty(fault, res) == IF fault THEN Fail("fault") ELSE res

ServerError(rec, e) ==
  Respond([rec EXCEPT !.err = e], 500, ErrorBody("Server error"))

----------------------------------------------------------------------------
(* app.post("/api/users") *)

PostUsers(r, P) ==
  \E username \in P.usernames :
    LET rec == [Arrive("createUser") EXCEPT
                  !.username = username,
                  !.prior = {p[2] : p \in {q \in answered : q[1] = username.s}}]
    IN Arrival(r, IF ~Truthy(username)
                  THEN Respond(rec, 400, ErrorBody("Username is required"))
                  ELSE [rec EXCEPT !.pc = "cuSelect"])

\* mutation: the test is `> 1`
existingUserOffByOne(rows) == Cardinality(rows) > 1

\* `existingUser.rows.length > 0`
existingUser(rows) == Cardinality(rows) > 0

PostUsersSelect(r, P) ==
  /\ reqs[r].pc = "cuSelect"
  /\ \E fault \in P.faults :
       LET res == Faulty(fault, SelectUserByUsername(reqs[r].username.s))
           row == CHOOSE u \in res.rows : TRUE
       IN IF res.err # "none"
          THEN /\ Settle([reqs EXCEPT ![r] = ServerError(@, res.err)])
               /\ answered' = answered
          ELSE IF existingUser(res.rows)
          THEN /\ Settle([reqs EXCEPT ![r] =
                     Respond(@, 200, [NoBody EXCEPT !.username = row.username, !.id = row.id])])
               /\ answered' = answered \cup {<<row.username, row.id>>}
          ELSE /\ Settle([reqs EXCEPT ![r].pc = "cuInsert"])
               /\ answered' = answered
  /\ UNCHANGED <<tables, users, exercises, exFk, tz, sinceReset>>

PostUsersInsert(r, P) ==
  /\ reqs[r].pc = "cuInsert"
  /\ \E fault \in P.faults, userId \in UserIds :
       LET res == Faulty(fault, InsertUser(userId, reqs[r].username.s))
           user == CHOOSE u \in res.rows : TRUE
       IN IF res.err # "none"
          THEN /\ Settle([reqs EXCEPT ![r] = ServerError(@, res.err)])
               /\ UNCHANGED <<users, answered>>
          ELSE /\ users' = users \cup res.rows
               /\ Settle([reqs EXCEPT ![r] =
                     Respond([@ EXCEPT !.wrote = TRUE], 200,
                             [NoBody EXCEPT !.username = user.username, !.id = user.id])])
               /\ answered' = answered \cup {<<user.username, user.id>>}
  /\ UNCHANGED <<tables, exercises, exFk, tz, sinceReset>>

----------------------------------------------------------------------------
(* app.get("/api/users") *)

GetUsers(r) == Arrival(r, [Arrive("listUsers") EXCEPT !.pc = "luSelect"])

GetUsersSelect(r, P) ==
  /\ reqs[r].pc = "luSelect"
  /\ \E fault \in P.faults :
       LET res == Faulty(fault, SelectUsers)
       IN IF res.err # "none"
          THEN Settle([reqs EXCEPT ![r] = ServerError(@, res.err)])
          ELSE \E rows \in res.rows :
                 Settle([reqs EXCEPT ![r] = Respond(@, 200, [NoBody EXCEPT !.list = rows])])
  /\ UNCHANGED <<tables, users, exercises, exFk, tz, answered, sinceReset>>

----------------------------------------------------------------------------
(* app.post("/api/users/:_id/exercises") *)

\* 'INSERT INTO exercises (_id, user_id, description, duration, date)
\*  VALUES ($1, $2, $3, $4, $5) RETURNING *'; NaN is no INTEGER and Invalid Date no DATE
InsertExercise(id, user_id, description, duration, date) ==
  IF "exercises" \notin tables THEN Fail("schema")
  ELSE IF ~duration.ok \/ ~date.valid THEN Fail("value")
  ELSE IF ExerciseIdTaken(id) \/ ~ReferencesUser(user_id) THEN Fail("constraint")
  ELSE Rows({[id |-> id, user_id |-> user_id, description |-> description,
              duration |-> duration.v, date |-> PgDateParam(date)]})

\* `if (!description || !duration)`
MissingField(description, duration) == ~Truthy(description) \/ ~Truthy(duration)

PostExercises(r, P) ==
  \E userId \in P.userIds, description \in P.descriptions,
     duration \in P.durations, date \in P.dates :
    \E exerciseDate \in IF MissingField(description, duration) THEN {InvalidDate}
                        ELSE IF Truthy(date) THEN {NewDate(date)}
                        ELSE {Instant(now) : now \in P.clock} :
      LET rec == [Arrive("addExercise") EXCEPT
                    !.userId = userId, !.description = description,
                    !.duration = duration, !.date = date]
      IN Arrival(r, IF MissingField(description, duration)
                    THEN Respond(rec, 400, ErrorBody("Description and duration are required"))
                    ELSE [rec EXCEPT !.pc = "aeSelect", !.exerciseDate = exerciseDate])

\* `userResult.rows.length === 0`
UserNotFound(rows) == Cardinality(rows) = 0

PostExercisesSelect(r, P) ==
  /\ reqs[r].pc = "aeSelect"
  /\ \E fault \in P.faults :
       LET userResult == Faulty(fault, SelectUserById(reqs[r].userId))
       IN Settle([reqs EXCEPT ![r] =
            IF userResult.err # "none" THEN ServerError(@, userResult.err)
            ELSE IF UserNotFound(userResult.rows)
              THEN Respond(@, 404, ErrorBody("User not found"))
            ELSE [@ EXCEPT !.pc = "aeInsert", !.userRows = userResult.rows]])
  /\ UNCHANGED <<tables, users, exercises, exFk, tz, answered, sinceReset>>

PostExercisesInsert(r, P) ==
  /\ reqs[r].pc = "aeInsert"
  /\ \E fault \in P.faults, exerciseId \in ExerciseIds :
       LET exerciseResult ==
             Faulty(fault, InsertExercise(exerciseId, reqs[r].userId, reqs[r].description.s,
                                          parseInt(reqs[r].duration), reqs[r].exerciseDate))
           exercise == CHOOSE e \in exerciseResult.rows : TRUE
           user == CHOOSE u \in reqs[r].userRows : TRUE
       IN IF exerciseResult.err # "none"
          THEN /\ Settle([reqs EXCEPT ![r] = ServerError(@, exerciseResult.err)])
               /\ exercises' = exercises
          ELSE /\ exercises' = exercises \cup exerciseResult.rows
               /\ Settle([reqs EXCEPT ![r] =
                    Respond([@ EXCEPT !.wrote = TRUE], 200,
                            [NoBody EXCEPT !.id = user.id,
                                           !.username = user.username,
                                           !.date = toDateString(PgDateRead(exercise.date)),
                                           !.duration = exercise.duration,
                                           !.description = exercise.description])])
  /\ UNCHANGED <<tables, users, exFk, tz, answered, sinceReset>>

----------------------------------------------------------------------------
(* app.get("/api/users/:_id/logs") *)

\* the text of the query and its parameters as the handler builds them: the WHERE
\* conditions, each naming its $n, and the $n of LIMIT (0: no LIMIT)
BaseQuery(userId) ==
  [where |-> <<[col |-> "user_id", op |-> "=", arg |-> 1]>>, limit |-> 0,
   params |-> <<userId>>, paramIndex |-> 2]

\* `if (from) { query += ` AND date >= $${paramIndex}`; params.push(new Date(from)); paramIndex++ }`
AddFrom(q, from) ==
  IF Truthy(from)
  THEN [q EXCEPT !.where = Append(@, [col |-> "date", op |-> ">=", arg |-> q.paramIndex]),
                 !.params = Append(@, NewDate(from)),
                 !.paramIndex = @ + 1]
  ELSE q

\* `if (to) { query += ` AND date <= $${paramIndex}`; params.push(new Date(to)); paramIndex++ }`
AddTo(q, to) ==
  IF Truthy(to)
  THEN [q EXCEPT !.where = Append(@, [col |-> "date", op |-> "<=", arg |-> q.paramIndex]),
                 !.params = Append(@, NewDate(to)),
                 !.paramIndex = @ + 1]
  ELSE q

\* `if (limit) { query += ` LIMIT $${paramIndex}`; params.push(parseInt(limit)) }`
AddLimit(q, limit) ==
  IF Truthy(limit)
  THEN [q EXCEPT !.limit = q.paramIndex, !.params = Append(@, parseInt(limit))]
  ELSE q

LogsQuery(userId, from, to, limit) ==
  AddLimit(AddTo(AddFrom(BaseQuery(userId), from), to), limit)

\* one condition of the WHERE clause on one row
Holds(c, params, e) ==
  CASE c.col = "user_id" -> e.user_id = params[c.arg]
    [] c.op = ">=" -> e.date >= PgDateParam(params[c.arg])
    [] OTHER -> e.date <= PgDateParam(params[c.arg])

\* mutation: the query has no ORDER BY
ByDateUnordered(e) == 0

\* ORDER BY date
ByDate(e) == e.date

\* LIMIT n
Limit(rows, n) == SubSeq(rows, 1, IF n < Len(rows) THEN n ELSE Len(rows))

\* SELECT description, duration, date
Columns(rows) ==
  [i \in 1..Len(rows) |->
     [description |-> rows[i].description, duration |-> rows[i].duration,
      date |-> rows[i].date]]

\* the outcomes of the built query: the matching rows ORDER BY date, cut by LIMIT.
\* Invalid Date is no DATE, NaN no integer, and LIMIT must not be negative.
SelectExercises(q) ==
  LET dateArgs == {q.where[i].arg : i \in {j \in 1..Len(q.where) : q.where[j].col = "date"}}
      matching == {e \in exercises : \A i \in 1..Len(q.where) : Holds(q.where[i], q.params, e)}
  IN IF "exercises" \notin tables THEN Fail("schema")
     ELSE IF \E a \in dateArgs : ~q.params[a].valid THEN Fail("value")
     ELSE IF q.limit # 0 /\ (~q.params[q.limit].ok \/ q.params[q.limit].v < 0)
       THEN Fail("value")
     ELSE Rows({Columns(IF q.limit = 0 THEN rows ELSE Limit(rows, q.params[q.limit].v)) :
                  rows \in OrderBy(matching, [e \in matching |-> ByDate(e)])})

\* `exercisesResult.rows.map(...)`
Log(rows) ==
  [i \in 1..Len(rows) |->
     [description |-> rows[i].description, duration |-> rows[i].duration,
      date |-> toDateString(PgDateRead(rows[i].date))]]

GetLogs(r, P) ==
  \E userId \in P.userIds, from \in P.froms, to \in P.tos, limit \in P.limits :
    Arrival(r, [Arrive("getLogs") EXCEPT !.pc = "glUser", !.userId = userId,
                                         !.from = from, !.to = to, !.limit = limit])

GetLogsUser(r, P) ==
  /\ reqs[r].pc = "glUser"
  /\ \E fault \in P.faults :
       LET userResult == Faulty(fault, SelectUserById(reqs[r].userId))
       IN Settle([reqs EXCEPT ![r] =
            IF userResult.err # "none" THEN ServerError(@, userResult.err)
            ELSE IF UserNotFound(userResult.rows)
              THEN Respond(@, 404, ErrorBody("User not found"))
            ELSE [@ EXCEPT !.pc = "glLog", !.userRows = userResult.rows]])
  /\ UNCHANGED <<tables, users, exercises, exFk, tz, answered, sinceReset>>

GetLogsExercises(r, P) ==
  /\ reqs[r].pc = "glLog"
  /\ \E fault \in P.faults :
       LET query == LogsQuery(reqs[r].userId, reqs[r].from, reqs[r].to, reqs[r].limit)
           exercisesResult == Faulty(fault, SelectExercises(query))
           user == CHOOSE u \in reqs[r].userRows : TRUE
       IN IF exercisesResult.err # "none"
          THEN Settle([reqs EXCEPT ![r] = ServerError(@, exercisesResult.err)])
          ELSE \E rows \in exercisesResult.rows :
                 Settle([reqs EXCEPT ![r] =
                    Respond(@, 200, [NoBody EXCEPT !.id = user.id,
                                                   !.username = user.username,
                                                   !.count = Len(Log(rows)),
                                                   !.list = Log(rows)])])
  /\ UNCHANGED <<tables, users, exercises, exFk, tz, answered, sinceReset>>

----------------------------------------------------------------------------
(* app.get("/api/reset") and initDatabase *)

GetReset(r) == Arrival(r, [Arrive("reset") EXCEPT !.pc = "rsDropExercises"])

\* history: a DROP ends what the answers given so far promise
Forget(rs) == [s \in Slots |-> [rs[s] EXCEPT !.prior = {}]]

\* 'DROP TABLE IF EXISTS exercises CASCADE'
GetResetDropExercises(r, P) ==
  /\ reqs[r].pc = "rsDropExercises"
  /\ \E fault \in P.faults :
       IF fault
       THEN /\ Settle([reqs EXCEPT ![r] = ServerError(@, "fault")])
            /\ UNCHANGED <<tables, exercises, exFk, answered>>
       ELSE /\ tables' = tables \ {"exercises"}
            /\ exercises' = {}
            /\ exFk' = FALSE
            /\ Settle(Forget([reqs EXCEPT ![r].pc = "rsDropUsers",
                                          ![r].wrote = @ \/ "exercises" \in tables]))
            /\ answered' = {}
  /\ UNCHANGED <<users, tz, sinceReset>>

\* 'DROP TABLE IF EXISTS users CASCADE': the cascade removes the foreign key that
\* references users from exercises, and leaves the exercises table
DropUsersCascade == FALSE

GetResetDropUsers(r, P) ==
  /\ reqs[r].pc = "rsDropUsers"
  /\ \E fault \in P.faults :
       IF fault
       THEN /\ Settle([reqs EXCEPT ![r] = ServerError(@, "fault")])
            /\ UNCHANGED <<tables, users, exFk, answered>>
       ELSE /\ tables' = tables \ {"users"}
            /\ users' = {}
            /\ exFk' = DropUsersCascade
            /\ Settle(Forget([reqs EXCEPT ![r].pc = "initUsers",
                                          ![r].seen = StoredUserIds,
                                          ![r].wrote = @ \/ "users" \in tables]))
            /\ answered' = {}
  /\ UNCHANGED <<exercises, tz, sinceReset>>

\* history: sinceReset once the reset rec has been answered
AfterReset(rec) == IF rec.status = 200 THEN Since(rec.seen) ELSE sinceReset

\* `res.json({ message: 'Database reset successfully' })`, once `await initDatabase()` returns
ResetDone(rec) ==
  Respond(rec, 200, [NoBody EXCEPT !.message = "Database reset successfully"])

\* initDatabase: its catch logs the error e of either CREATE and returns normally
initDatabase(rec, e) == ResetDone([rec EXCEPT !.err = e])

\* `await client.query(createUsersTable)`: CREATE TABLE IF NOT EXISTS users
InitDatabaseUsers(r, P) ==
  /\ reqs[r].pc = "initUsers"
  /\ \E fault \in P.faults :
       IF fault
       THEN /\ Settle([reqs EXCEPT ![r] = initDatabase(@, "fault")])
            /\ sinceReset' = AfterReset(initDatabase(reqs[r], "fault"))
            /\ UNCHANGED tables
       ELSE /\ tables' = tables \cup {"users"}
            /\ Settle([reqs EXCEPT ![r].pc = "initExercises",
                                   ![r].wrote = @ \/ "users" \notin tables])
            /\ sinceReset' = sinceReset
  /\ UNCHANGED <<users, exercises, exFk, tz, answered>>

\* `await client.query(createExercisesTable)`: CREATE TABLE IF NOT EXISTS exercises; a
\* new table's REFERENCES users(_id) needs the users table
InitDatabaseExercises(r, P) ==
  /\ reqs[r].pc = "initExercises"
  /\ \E fault \in P.faults :
       LET e == IF fault THEN "fault"
                ELSE IF "exercises" \notin tables /\ "users" \notin tables THEN "schema"
                ELSE "none"
           created == e = "none" /\ "exercises" \notin tables
           answer == IF e = "none" THEN ResetDone([reqs[r] EXCEPT !.wrote = @ \/ created])
                     ELSE initDatabase(reqs[r], e)
       IN /\ tables' = IF created THEN tables \cup {"exercises"} ELSE tables
          /\ exFk' = IF created THEN TRUE ELSE exFk
          /\ Settle([reqs EXCEPT ![r] = answer])
          /\ sinceReset' = AfterReset(answer)
  /\ UNCHANGED <<users, exercises, tz, answered>>

----------------------------------------------------------------------------
(* Specifications *)

\* the state once the process has started and initDatabase() has run against an empty
\* database, with n handler slots and the server in one of the time zones
Boot(n, zones) ==
  /\ tables = {"users", "exercises"}
  /\ users = {}
  /\ exercises = {}
  /\ exFk = TRUE
  /\ tz \in zones
  /\ reqs = [s \in 1..n |-> Idle]
  /\ last = Idle
  /\ answered = {}
  /\ sinceReset = NotSince

\* offsets from UTC in half days: a server on UTC, and one west of it
UTC == {0}
West == {0 - 1}

Run == Str(<<"r", "u", "n">>)
Thirty == Str(<<"3", "0">>)

\* What the requests of a run may carry, the server's clock when they arrive, and
\* whether statements may fail from outside.

\* one request at a time, every kind of body, any statement may fail
Requests ==
  [usernames |-> {Undef, Str(<<>>), Str(<<"a">>), Str(<<"b">>)},
   userIds |-> UserIds,
   descriptions |-> {Undef, Str(<<>>), Run},
   durations |-> {Undef, Num(0), Num(0 - 5), Str(<<"0">>), Thirty, Str(<<"7", "x">>),
                  Str(<<"x">>)},
   dates |-> {Undef, Str(<<"x">>)},
   clock |-> {4},
   froms |-> {Undef},
   tos |-> {Undef},
   limits |-> {Undef},
   faults |-> BOOLEAN]

Init == Boot(1, UTC)

Next ==
  \/ \E r \in Slots : PostUsers(r, Requests)
  \/ \E r \in Slots : PostUsersSelect(r, Requests)
  \/ \E r \in Slots : PostUsersInsert(r, Requests)
  \/ \E r \in Slots : GetUsers(r)
  \/ \E r \in Slots : GetUsersSelect(r, Requests)
  \/ \E r \in Slots : PostExercises(r, Requests)
  \/ \E r \in Slots : PostExercisesSelect(r, Requests)
  \/ \E r \in Slots : PostExercisesInsert(r, Requests)
  \/ \E r \in Slots : GetLogs(r, Requests)
  \/ \E r \in Slots : GetLogsUser(r, Requests)
  \/ \E r \in Slots : GetLogsExercises(r, Requests)
  \/ \E r \in Slots : GetReset(r)
  \/ \E r \in Slots : GetResetDropExercises(r, Requests)
  \/ \E r \in Slots : GetResetDropUsers(r, Requests)
  \/ \E r \in Slots : InitDatabaseUsers(r, Requests)
  \/ \E r \in Slots : InitDatabaseExercises(r, Requests)

Spec == Init /\ [][Next]_vars

\* one request at a time, in either time zone: exercises on any day and logs with any
\* from, to and limit
LogRequests ==
  [usernames |-> {Str(<<"a">>), Str(<<"b">>)},
   userIds |-> UserIds,
   descriptions |-> {Run},
   durations |-> {Thirty},
   dates |-> {Undef} \cup {DateStr(d) : d \in Days},
   clock |-> {2 * d + 1 : d \in Days},
   froms |-> {Undef, Str(<<"x">>)} \cup {DateStr(d) : d \in Days},
   tos |-> {Undef} \cup {DateStr(d) : d \in Days},
   limits |-> {Undef, Str(<<"0">>), Str(<<"1">>), Str(<<"2">>), Str(<<"-", "1">>),
               Str(<<"x">>)},
   faults |-> {FALSE}]

InitLog == Boot(1, UTC \cup West)

NextLog ==
  \/ \E r \in Slots : PostUsers(r, LogRequests)
  \/ \E r \in Slots : PostUsersSelect(r, LogRequests)
  \/ \E r \in Slots : PostUsersInsert(r, LogRequests)
  \/ \E r \in Slots : PostExercises(r, LogRequests)
  \/ \E r \in Slots : PostExercisesSelect(r, LogRequests)
  \/ \E r \in Slots : PostExercisesInsert(r, LogRequests)
  \/ \E r \in Slots : GetLogs(r, LogRequests)
  \/ \E r \in Slots : GetLogsUser(r, LogRequests)
  \/ \E r \in Slots : GetLogsExercises(r, LogRequests)

SpecLog == InitLog /\ [][NextLog]_vars

\* overlapping requests, any statement may fail
RaceRequests ==
  [usernames |-> {Str(<<"a">>), Str(<<"b">>)},
   userIds |-> UserIds,
   descriptions |-> {Run},
   durations |-> {Thirty},
   dates |-> {Undef},
   clock |-> {4},
   froms |-> {Undef},
   tos |-> {Undef},
   limits |-> {Undef},
   faults |-> BOOLEAN]

InitRace == Boot(MaxInFlight, UTC)

NextRace ==
  \/ \E r \in Slots : PostUsers(r, RaceRequests)
  \/ \E r \in Slots : PostUsersSelect(r, RaceRequests)
  \/ \E r \in Slots : PostUsersInsert(r, RaceRequests)
  \/ \E r \in Slots : GetUsers(r)
  \/ \E r \in Slots : GetUsersSelect(r, RaceRequests)
  \/ \E r \in Slots : PostExercises(r, RaceRequests)
  \/ \E r \in Slots : PostExercisesSelect(r, RaceRequests)
  \/ \E r \in Slots : PostExercisesInsert(r, RaceRequests)
  \/ \E r \in Slots : GetLogs(r, RaceRequests)
  \/ \E r \in Slots : GetLogsUser(r, RaceRequests)
  \/ \E r \in Slots : GetLogsExercises(r, RaceRequests)
  \/ \E r \in Slots : GetReset(r)
  \/ \E r \in Slots : GetResetDropExercises(r, RaceRequests)
  \/ \E r \in Slots : GetResetDropUsers(r, RaceRequests)
  \/ \E r \in Slots : InitDatabaseUsers(r, RaceRequests)
  \/ \E r \in Slots : InitDatabaseExercises(r, RaceRequests)

SpecRace == InitRace /\ [][NextRace]_vars

----------------------------------------------------------------------------
(* Properties.  `last` is the request answered by the step just taken, so the   *)
(* store it is read beside is the store as that request's last statement left it. *)

UsersNamed(username) == {u \in users : u.username = username}

\* C1: a create-user request that arrives after an earlier one for the same username
\* was answered with an id, with no DROP since and no outside failure of its own
\* statements, is answered 200 with that same id and inserts nothing, and the users
\* table then holds exactly one row with that username (under SpecRace)
IdempotentUserCreation ==
  (last.kind = "createUser" /\ last.prior # {} /\ last.err # "fault") =>
    /\ last.status = 200
    /\ last.prior = {last.body.id}
    /\ ~last.wrote
    /\ Cardinality(UsersNamed(last.username.s)) = 1

\* a second create-user for an answered username has been answered with the first one's id
SecondCreateAnswered ==
  /\ last.kind = "createUser"
  /\ last.status = 200
  /\ last.body.id \in last.prior

\* C2: no two rows of users share a username, whatever the interleaving (under SpecRace)
UsernameUnique ==
  \A u1, u2 \in users : u1.username = u2.username => u1 = u2

\* a create-user whose lookup found no row has lost the race: its INSERT was refused
\* and a row with its username is stored
CreateRaceLost ==
  /\ last.kind = "createUser"
  /\ last.err = "constraint"
  /\ UsersNamed(last.username.s) # {}

\* C3: add-exercise for an id that is no stored user's is answered 404 and
\* leaves exercises unchanged, whatever the body
UnknownUserAlways404 ==
  (last.kind = "addExercise" /\ last.userId \notin StoredUserIds) =>
    (last.status = 404 /\ ~last.wrote)

\* what add-exercise does for an id that is no stored user's: it leaves exercises
\* unchanged and answers 400 when description or duration is missing, and otherwise
\* 404, or 500 when the lookup of the user fails
UnknownUserNotInserted ==
  (last.kind = "addExercise" /\ last.userId \notin StoredUserIds) =>
    /\ ~last.wrote
    /\ last.status = IF MissingField(last.description, last.duration) THEN 400
                     ELSE IF last.err \in {"fault", "schema"} THEN 500
                     ELSE 404

\* C4: after a reset that ran alone has answered success, and before another
\* create-user, list-users answers the empty list and add-exercise and get-log answer
\* 404 for every id that was a user's before the reset (statements of these later
\* requests that fail from outside aside)
ResetEmpties ==
  (sinceReset.on /\ last.err # "fault") =>
    /\ last.kind = "listUsers" => (last.status = 200 /\ last.body.list = <<>>)
    /\ (/\ last.kind = "addExercise"
        /\ last.userId \in sinceReset.ids
        /\ ~MissingField(last.description, last.duration)) => last.status = 404
    /\ (last.kind = "getLogs" /\ last.userId \in sinceReset.ids) => last.status = 404

\* C7: a request one of whose statements failed is answered 500 {error: "Server
\* error"}, and a reset answers success only with both tables dropped and recreated
FailureReported ==
  /\ (last.pc = "done" /\ last.err # "none") =>
       (last.status = 500 /\ last.body.error = "Server error")
  /\ (last.kind = "reset" /\ last.status = 200) =>
       (tables = {"users", "exercises"} /\ exFk /\ users = {} /\ exercises = {})

\* C8: a request answered with an error (400, 404, 500) has changed nothing in the store
AllOrNothing ==
  last.status \in {400, 404, 500} => ~last.wrote

\* C9: every row of exercises has the id of a row of users as its user_id
ExercisesReferenceUsers ==
  \A e \in exercises : \E u \in users : u.id = e.user_id

\* C10: every stored exercise has a duration > 0
DurationPositive ==
  \A e \in exercises : e.duration > 0

\* the calendar day a date text names
DayOf(x) == x.n

\* from <= d <= to, each bound applying when it is supplied
InRange(d, from, to) ==
  /\ Truthy(from) => DayOf(from) <= d
  /\ Truthy(to) => d <= DayOf(to)

\* the entry the log shows for a stored exercise
Entry(e) == [description |-> e.description, duration |-> e.duration, date |-> e.date]

\* log lists exactly the rows rs, each once, in some order
Lists(log, rs) ==
  /\ Len(log) = Cardinality(rs)
  /\ \E q \in [1..Len(log) -> rs] :
       /\ \A i, j \in 1..Len(log) : i # j => q[i] # q[j]
       /\ \A i \in 1..Len(log) : log[i] = Entry(q[i])

\* C5: get-log without limit answers in log exactly the exercises of that user whose
\* date d has from <= d <= to, a bound applying when it is supplied
RangeFiltering ==
  (last.kind = "getLogs" /\ last.status = 200 /\ ~Truthy(last.limit)) =>
    Lists(last.body.list,
          {e \in exercises : e.user_id = last.userId /\ InRange(e.date, last.from, last.to)})

\* C5 on a server whose time zone is UTC
RangeFilteringUTC == tz \in UTC => RangeFiltering

\* the rows the date conditions of the request select, its bounds read as the server
\* passes them to the store
Matching(req) ==
  {e \in exercises :
     /\ e.user_id = req.userId
     /\ Truthy(req.from) => PgDateParam(NewDate(req.from)) <= e.date
     /\ Truthy(req.to) => e.date <= PgDateParam(NewDate(req.to))}

\* C6: with m exercises matching and limit n, get-log answers min(n, m) entries (all m
\* without a limit), in ascending order of date, and no matching exercise left out is
\* earlier than one that is listed
LimitCapping ==
  (last.kind = "getLogs" /\ last.status = 200) =>
    LET log == last.body.list
        m == Cardinality(Matching(last))
        n == IF Truthy(last.limit) THEN parseInt(last.limit).v ELSE m
    IN /\ Len(log) = IF n < m THEN n ELSE m
       /\ last.body.count = Len(log)
       /\ \A i, j \in 1..Len(log) : i < j => log[i].date <= log[j].date
       /\ \E chosen \in SUBSET Matching(last) :
            /\ Lists(log, chosen)
            /\ \A e \in chosen, f \in Matching(last) \ chosen : e.date <= f.date

\* a limit has cut a log of several matching exercises on different days
LogCut ==
  /\ last.kind = "getLogs"
  /\ last.status = 200
  /\ Truthy(last.limit)
  /\ Len(last.body.list) = 1
  /\ \E e \in Matching(last) : e.date > last.body.list[1].date

====
